---- MODULE Spec2Model ----
(***************************************************************************)
(* PASC PRO, Streamlit front end (src/streamlit_app.py): passwordless      *)
(* login by e-mailed signed token or TOTP code, with an HMAC-tagged audit  *)
(* log.  Each Streamlit script run that handles a submitted form or a      *)
(* pressed button is one action.  The SMTP server, the audit file, the     *)
(* users table and the clock are the environment.                          *)
(***************************************************************************)
EXTENDS Integers, Sequences, FiniteSets, TLC

(* ------------------------------ bounds --------------------------------- *)
\* Longest audit log explored; the handlers stop being taken at this length.
MaxLog == 3
\* Latest clock value explored (seconds).
MaxTime == 691
\* Clock value of the initial state (seconds).
StartTime == 90

(* -------------------------- program constants -------------------------- *)
\* verify_email_token(token, max_age=600)
max_age == 600
\* totp.verify(token_in, valid_window=1)
valid_window == 1
\* pyotp.TOTP(secret): 30-second time step
interval == 30

\* The browser sessions there can be (one st.session_state each).
Sessions == {"s1", "s2"}
\* The sessions open in the behaviours of Spec.
OneSession == {"s1"}
\* Values pyotp.random_base32() may return.
Secrets == {"S1", "S2"}
\* PASC_SECRET_KEY
SECRET_KEY == "PASC_SECRET_KEY"
\* PASC_HMAC_KEY or SECRET_KEY
HMAC_KEY == SECRET_KEY
\* How many time steps away from the current one a typed TOTP code may be.
OtpOffsets == {-2, -1, 0, 1, 2, 3}
\* How far the clock moves in one step of the environment.
TickSizes == {600, 601}

(* ------------------------------ texts ---------------------------------- *)
\* E-mail addresses are sequences of characters.
Lower(c) == IF c = "A" THEN "a" ELSE IF c = "B" THEN "b" ELSE c

RECURSIVE lstrip(_)
lstrip(str) ==
  IF str # <<>> /\ Head(str) = " " THEN lstrip(Tail(str)) ELSE str

RECURSIVE rstrip(_)
rstrip(str) ==
  IF str # <<>> /\ str[Len(str)] = " "
  THEN rstrip(SubSeq(str, 1, Len(str) - 1))
  ELSE str

\* str.strip()
strip(str) == rstrip(lstrip(str))

\* str.lower()
lower(str) == [i \in 1..Len(str) |-> Lower(str[i])]

\* Variant of canonical: the lower() is left out.
canonical_StripOnly(raw) == strip(raw)

\* email.strip().lower()
canonical(raw) == lower(strip(raw))

\* What a user may type into the e-mail field.
RawEmails ==
  { <<>>, <<" ">>, <<"a">>, <<" ", "A">>, <<"A", " ">> }

Emails == { canonical(raw) : raw \in RawEmails }

\* Every text typed into the code field or held as pending token is a record
\* of one shape: the empty text, a signed token (payload e-mail and purpose,
\* timestamp n, signing key k), a TOTP code (secret k, counter n) or another
\* string.
EmptyText == [kind |-> "", email |-> <<>>, purpose |-> "", n |-> 0, k |-> ""]
JunkText == [kind |-> "junk", email |-> <<>>, purpose |-> "", n |-> 0, k |-> ""]

\* URL_SIGNER.dumps(payload) at time t under key
dumps(e, purpose, t, key) ==
  [kind |-> "tok", email |-> e, purpose |-> purpose, n |-> t, k |-> key]

\* Variant of generate_email_token: the e-mail is left out of the payload.
generate_email_token_NoEmail(e, t) == dumps(<<>>, "login", t, SECRET_KEY)

\* generate_email_token(email), called at time t
generate_email_token(e, t) == dumps(e, "login", t, SECRET_KEY)

None == [email |-> <<>>, purpose |-> "None"]

\* Variant of verify_email_token: a token expires on reaching max_age.
verify_email_token_Strict(token, t, age_limit) ==
  IF token.kind # "tok" \/ token.k # SECRET_KEY
  THEN None
  ELSE IF t - token.n >= age_limit
  THEN None
  ELSE [email |-> token.email, purpose |-> token.purpose]

\* Variant of verify_email_token: the age of the token is not looked at.
verify_email_token_NoExpiry(token, t, age_limit) ==
  IF token.kind # "tok" \/ token.k # SECRET_KEY
  THEN None
  ELSE [email |-> token.email, purpose |-> token.purpose]

\* verify_email_token(token, max_age), called at time t
verify_email_token(token, t, age_limit) ==
  IF token.kind # "tok" \/ token.k # SECRET_KEY
  THEN None                                        \* BadSignature
  ELSE IF t - token.n > age_limit
  THEN None                                        \* SignatureExpired
  ELSE [email |-> token.email, purpose |-> token.purpose]

\* pyotp: the code of a secret for one counter value
generate_otp(secret, counter) ==
  [kind |-> "otp", email |-> <<>>, purpose |-> "", n |-> counter, k |-> secret]

\* pyotp: TOTP.timecode
timecode(t) == t \div interval

\* Variant of totp_verify: the window starts after the current step.
totp_verify_FromNext(otp, secret, t, window) ==
  \E i \in 1..window : otp = generate_otp(secret, timecode(t) + i)

\* Variant of totp_verify: the window is two steps wider on each side.
totp_verify_Wide(otp, secret, t, window) ==
  \E i \in (0 - window - 2)..(window + 2) :
    otp = generate_otp(secret, timecode(t) + i)

\* pyotp.TOTP(secret).verify(otp, valid_window=window), called at time t
totp_verify(otp, secret, t, window) ==
  \E i \in (0 - window)..window : otp = generate_otp(secret, timecode(t) + i)

\* What is typed into the code field: a text, possibly with blanks around it.
Typed(text, blanks) == [body |-> text, blanks |-> blanks]

\* token_in.strip(): no text of the model has blanks inside or is only blanks
strip_code(typed) == typed.body

(* ------------------------------ state ---------------------------------- *)
VARIABLES
  email,          \* session_state['email'], per session
  pending_token,  \* session_state['pending_token'], per session
  authenticated,  \* session_state['authenticated'], per session
  shown,          \* what the last script run of the session displayed
  users,          \* the rows of the users table: [email, totp_secret]
  log,            \* the lines of AUDIT_FILE
  now,            \* the clock, in seconds
  smtp_ok,        \* whether mail.send currently succeeds
  run,            \* where the request handler of each session's script run is
  called          \* the checks the last script run of each session called

vars ==
  <<email, pending_token, authenticated, shown, users, log, now, smtp_ok,
    run, called>>

session_vars == <<email, pending_token, authenticated>>

\* sign_record(line)
sign_record(record) == <<HMAC_KEY, record>>

\* One line of the audit file written at time t.
AuditLine(event, details, t) ==
  LET record == [timestamp |-> t, event |-> event, details |-> details]
  IN [record |-> record, hmac |-> sign_record(record)]

\* Variant of audit: the file is opened for writing, not for appending.
audit_Truncating(event, details) == <<AuditLine(event, details, now)>>

\* audit(event, details) when the file can be opened and written
audit(event, details) == Append(log, AuditLine(event, details, now))

\* The details mappings the handlers pass to audit.
EmailDetails(e) == [email |-> e]
SubmittedDetails(code, e) == [submitted |-> code, email |-> e]

\* No script run of the session is inside the request handler.
Idle == [pc |-> "idle", e |-> <<>>]

\* The open sessions: those that have a session_state.
Open == DOMAIN email

\* The state once the sessions of S have run the script for the first time.
InitWith(S) ==
  /\ email = [s \in S |-> <<>>]
  /\ pending_token = [s \in S |-> EmptyText]
  /\ authenticated = [s \in S |-> FALSE]
  /\ shown = [s \in S |-> <<>>]
  /\ users = {}
  /\ log = <<>>
  /\ now = StartTime
  /\ smtp_ok = TRUE
  /\ run = [s \in S |-> Idle]
  /\ called = [s \in S |-> <<>>]

Init == InitWith(OneSession)

(* ----------------------------- handlers -------------------------------- *)
\* What a script run can display.
Connected == "Conectado como"
Sent == "Se ha enviado un codigo a tu correo"
MailError == "Error enviando el correo. Revisa configuracion SMTP."
NoRequest == "Primero solicita acceso con tu correo."
TokenError == "Token invalido o expirado"
CodeError == "Codigo invalido"
NotFound == "Usuario no encontrado"
Exception == "uncaught exception"

\* Variant of truthy: the empty string passes too.
truthy_Always(str) == TRUE

\* 'if not email': a string is true unless it is empty
truthy(str) == str # <<>>

\* db.query(UserModel).filter_by(email=e): the matching rows
query(e) == { u \in users : u.email = e }

\* UserModel(email=e, totp_secret=secret)
UserModel(e, secret) == [email |-> e, totp_secret |-> secret]

\* Variant of Logout: the pending token is not cleared.
Logout_KeepsToken(s, written) ==
  /\ authenticated[s]
  /\ Len(log) < MaxLog
  /\ IF written
     THEN /\ log' = audit("logout", EmailDetails(email[s]))
          /\ authenticated' = [authenticated EXCEPT ![s] = FALSE]
          /\ email' = [email EXCEPT ![s] = <<>>]
          /\ shown' = [shown EXCEPT ![s] = <<Connected>>]
          /\ UNCHANGED pending_token
     ELSE /\ shown' = [shown EXCEPT ![s] = <<Connected, Exception>>]
          /\ UNCHANGED <<log, session_vars>>
  /\ called' = [called EXCEPT ![s] = <<>>]
  /\ UNCHANGED <<users, now, smtp_ok, run>>

\* Variant of Logout: the e-mail on file is not cleared.
Logout_KeepsEmail(s, written) ==
  /\ authenticated[s]
  /\ Len(log) < MaxLog
  /\ IF written
     THEN /\ log' = audit("logout", EmailDetails(email[s]))
          /\ authenticated' = [authenticated EXCEPT ![s] = FALSE]
          /\ pending_token' = [pending_token EXCEPT ![s] = EmptyText]
          /\ shown' = [shown EXCEPT ![s] = <<Connected>>]
          /\ UNCHANGED email
     ELSE /\ shown' = [shown EXCEPT ![s] = <<Connected, Exception>>]
          /\ UNCHANGED <<log, session_vars>>
  /\ called' = [called EXCEPT ![s] = <<>>]
  /\ UNCHANGED <<users, now, smtp_ok, run>>

\* The button 'Cerrar sesion' of an authenticated session; written tells
\* whether the audit file can be opened and written during this run.
Logout(s, written) ==
  /\ authenticated[s]
  /\ Len(log) < MaxLog
  /\ IF written
     THEN /\ log' = audit("logout", EmailDetails(email[s]))
          /\ authenticated' = [authenticated EXCEPT ![s] = FALSE]
          /\ email' = [email EXCEPT ![s] = <<>>]
          /\ pending_token' = [pending_token EXCEPT ![s] = EmptyText]
          /\ shown' = [shown EXCEPT ![s] = <<Connected>>]
     ELSE /\ shown' = [shown EXCEPT ![s] = <<Connected, Exception>>]
          /\ UNCHANGED <<log, session_vars>>
  /\ called' = [called EXCEPT ![s] = <<>>]
  /\ UNCHANGED <<users, now, smtp_ok, run>>

\* Variant of Request: the e-mail and the token are stored in the session
\* before the mail is sent.
Request_StoresBeforeSend(s, raw, written) ==
  LET e == canonical(raw)
      token == generate_email_token(e, now)
  IN /\ ~authenticated[s]
     /\ Len(log) < MaxLog
     /\ IF query(e) = {}
        THEN \E secret \in Secrets : users' = users \cup {UserModel(e, secret)}
        ELSE users' = users
     /\ email' = [email EXCEPT ![s] = e]
     /\ pending_token' = [pending_token EXCEPT ![s] = token]
     /\ UNCHANGED authenticated
     /\ IF smtp_ok /\ written
        THEN /\ log' = audit("request_access", EmailDetails(e))
             /\ shown' = [shown EXCEPT ![s] = <<Sent>>]
        ELSE /\ shown' = [shown EXCEPT ![s] = <<MailError>>]
             /\ UNCHANGED log
     /\ called' = [called EXCEPT ![s] = <<>>]
     /\ UNCHANGED <<now, smtp_ok, run>>

\* Variant of Request: the form is processed in an authenticated session too.
Request_NoStop(s, raw, written) ==
  LET e == canonical(raw)
      token == generate_email_token(e, now)
  IN /\ Len(log) < MaxLog
     /\ IF query(e) = {}
        THEN \E secret \in Secrets : users' = users \cup {UserModel(e, secret)}
        ELSE users' = users
     /\ IF smtp_ok /\ written
        THEN /\ log' = audit("request_access", EmailDetails(e))
             /\ shown' = [shown EXCEPT ![s] = <<Sent>>]
             /\ email' = [email EXCEPT ![s] = e]
             /\ pending_token' = [pending_token EXCEPT ![s] = token]
             /\ UNCHANGED authenticated
        ELSE /\ shown' = [shown EXCEPT ![s] = <<MailError>>]
             /\ UNCHANGED <<log, session_vars>>
     /\ called' = [called EXCEPT ![s] = <<>>]
     /\ UNCHANGED <<now, smtp_ok, run>>

\* Variant of Request: a pending token already held is not overwritten.
Request_KeepsPending(s, raw, written) ==
  LET e == canonical(raw)
      token == generate_email_token(e, now)
  IN /\ ~authenticated[s]
     /\ Len(log) < MaxLog
     /\ IF query(e) = {}
        THEN \E secret \in Secrets : users' = users \cup {UserModel(e, secret)}
        ELSE users' = users
     /\ IF smtp_ok /\ written
        THEN /\ log' = audit("request_access", EmailDetails(e))
             /\ shown' = [shown EXCEPT ![s] = <<Sent>>]
             /\ email' = [email EXCEPT ![s] = e]
             /\ pending_token' =
                  [pending_token EXCEPT
                     ![s] = IF pending_token[s] = EmptyText
                            THEN token ELSE pending_token[s]]
             /\ UNCHANGED authenticated
        ELSE /\ shown' = [shown EXCEPT ![s] = <<MailError>>]
             /\ UNCHANGED <<log, session_vars>>
     /\ called' = [called EXCEPT ![s] = <<>>]
     /\ UNCHANGED <<now, smtp_ok, run>>

\* The form 'Solicitar acceso' submitted with the text raw.
Request(s, raw, written) ==
  LET e == canonical(raw)
      token == generate_email_token(e, now)
  IN /\ ~authenticated[s]
     /\ Len(log) < MaxLog
     /\ IF query(e) = {}
        THEN \E secret \in Secrets : users' = users \cup {UserModel(e, secret)}
        ELSE users' = users
     /\ IF smtp_ok /\ written
        THEN /\ log' = audit("request_access", EmailDetails(e))
             /\ shown' = [shown EXCEPT ![s] = <<Sent>>]
             /\ email' = [email EXCEPT ![s] = e]
             /\ pending_token' = [pending_token EXCEPT ![s] = token]
             /\ UNCHANGED authenticated
        ELSE /\ shown' = [shown EXCEPT ![s] = <<MailError>>]
             /\ UNCHANGED <<log, session_vars>>
     /\ called' = [called EXCEPT ![s] = <<>>]
     /\ UNCHANGED <<now, smtp_ok, run>>

\* The form 'Verificar' submitted with the text typed.
Verify(s, typed, written) ==
  LET token_in == strip_code(typed)
      e == email[s]
      payload == verify_email_token(token_in, now, max_age)
      found == query(e)
      user == CHOOSE u \in found : TRUE
  IN /\ ~authenticated[s]
     /\ Len(log) < MaxLog
     /\ IF ~truthy(e)
        THEN /\ shown' = [shown EXCEPT ![s] = <<NoRequest>>]
             /\ UNCHANGED <<log, session_vars>>
        ELSE IF token_in = pending_token[s]
        THEN IF payload # None /\ payload.email = e
             THEN /\ authenticated' = [authenticated EXCEPT ![s] = TRUE]
                  /\ UNCHANGED <<email, pending_token>>
                  /\ IF written
                     THEN /\ log' = audit("login_success", EmailDetails(e))
                          /\ shown' = [shown EXCEPT ![s] = <<Connected>>]
                     ELSE /\ shown' = [shown EXCEPT ![s] = <<Exception>>]
                          /\ UNCHANGED log
             ELSE /\ UNCHANGED session_vars
                  /\ IF written
                     THEN /\ log' = audit("login_fail_token",
                                          SubmittedDetails(token_in, e))
                          /\ shown' = [shown EXCEPT ![s] = <<TokenError>>]
                     ELSE /\ shown' = [shown EXCEPT ![s] = <<TokenError, Exception>>]
                          /\ UNCHANGED log
        ELSE IF found # {}
        THEN IF totp_verify(token_in, user.totp_secret, now, valid_window)
             THEN /\ authenticated' = [authenticated EXCEPT ![s] = TRUE]
                  /\ UNCHANGED <<email, pending_token>>
                  /\ IF written
                     THEN /\ log' = audit("login_success_totp", EmailDetails(e))
                          /\ shown' = [shown EXCEPT ![s] = <<Connected>>]
                     ELSE /\ shown' = [shown EXCEPT ![s] = <<Exception>>]
                          /\ UNCHANGED log
             ELSE /\ UNCHANGED session_vars
                  /\ IF written
                     THEN /\ log' = audit("login_fail",
                                          SubmittedDetails(token_in, e))
                          /\ shown' = [shown EXCEPT ![s] = <<CodeError>>]
                     ELSE /\ shown' = [shown EXCEPT ![s] = <<CodeError, Exception>>]
                          /\ UNCHANGED log
        ELSE /\ shown' = [shown EXCEPT ![s] = <<NotFound>>]
             /\ UNCHANGED <<log, session_vars>>
     /\ called' =
          [called EXCEPT
             ![s] = IF ~truthy(e) THEN <<>>
                    ELSE IF token_in = pending_token[s]
                    THEN <<"verify_email_token">>
                    ELSE IF found # {} THEN <<"totp.verify">>
                    ELSE <<>>]
     /\ UNCHANGED <<users, now, smtp_ok, run>>

(* ---------------------------- environment ------------------------------ *)
\* Time passes.
Tick(d) ==
  /\ now + d <= MaxTime
  /\ now' = now + d
  /\ UNCHANGED <<session_vars, shown, users, log, smtp_ok, run, called>>

\* The SMTP server goes down or comes back (mail.send raises or not).
SmtpChange ==
  /\ smtp_ok' = ~smtp_ok
  /\ UNCHANGED <<session_vars, shown, users, log, now, run, called>>

\* A row of the users table is deleted by an administrator outside this
\* program (the table is shared with the Flask back end).
AdminDelete(u) ==
  /\ u \in users
  /\ users' = users \ {u}
  /\ UNCHANGED <<session_vars, shown, log, now, smtp_ok, run, called>>

\* The tokens mailed so far: one for each request_access line of the audit
\* log, issued for the e-mail of the line in the second the line was written.
MailedTokens ==
  { generate_email_token(log[i].record.details.email, log[i].record.timestamp) :
      i \in { j \in 1..Len(log) : log[j].record.event = "request_access" } }

\* The texts the user of a session may type into the code field in the
\* current state: a pending token, a token mailed earlier, a TOTP code of the
\* secret stored for the session's e-mail for a time step near the current
\* one, the current TOTP code of any secret, or something else.
CodeTexts(s) ==
  {pending_token[t] : t \in Open}
    \cup MailedTokens
    \cup {generate_otp(u.totp_secret, timecode(now) + i) :
            u \in query(email[s]), i \in OtpOffsets}
    \cup {generate_otp(secret, timecode(now)) : secret \in Secrets}
    \cup {JunkText}

CodeInputs(s) ==
  {Typed(text, blanks) : text \in CodeTexts(s), blanks \in BOOLEAN}

Next ==
  \/ \E s \in Open, raw \in RawEmails, written \in BOOLEAN :
       Request(s, raw, written)
  \/ \E s \in Open, written \in BOOLEAN :
       \E typed \in CodeInputs(s) : Verify(s, typed, written)
  \/ \E s \in Open, written \in BOOLEAN : Logout(s, written)
  \/ \E d \in TickSizes : Tick(d)
  \/ SmtpChange
  \/ \E u \in users : AdminDelete(u)

Spec == Init /\ [][Next]_vars

(* ---------------- the request handler, statement by statement ---------- *)
\* Script runs of different sessions are threads of one process and share
\* the users table: the request handler of one session can run between two
\* statements of the request handler of another.

\* db.query(UserModel).filter_by(email=email).first() and the test of it.
Lookup(s, raw) ==
  LET e == canonical(raw)
  IN /\ ~authenticated[s]
     /\ run[s] = Idle
     /\ Len(log) < MaxLog
     /\ run' = [run EXCEPT
                  ![s] = [pc |-> IF query(e) = {} THEN "insert" ELSE "send",
                          e |-> e]]
     /\ called' = [called EXCEPT ![s] = <<>>]
     /\ UNCHANGED <<session_vars, shown, users, log, now, smtp_ok>>

\* Variant of Insert: the users table has no unique index on email.
Insert_NoUnique(s, secret) ==
  LET e == run[s].e
  IN /\ run[s].pc = "insert"
     /\ users' = users \cup {UserModel(e, secret)}
     /\ run' = [run EXCEPT ![s] = [pc |-> "send", e |-> e]]
     /\ UNCHANGED <<session_vars, shown, log, now, smtp_ok, called>>

\* db.add(user); db.commit() with a fresh random secret. The column email is
\* unique: the commit of a second row for the same e-mail raises, and the
\* script run ends there.
Insert(s, secret) ==
  LET e == run[s].e
  IN /\ run[s].pc = "insert"
     /\ IF query(e) # {}
        THEN /\ shown' = [shown EXCEPT ![s] = <<Exception>>]
             /\ run' = [run EXCEPT ![s] = Idle]
             /\ UNCHANGED users
        ELSE /\ users' = users \cup {UserModel(e, secret)}
             /\ run' = [run EXCEPT ![s] = [pc |-> "send", e |-> e]]
             /\ UNCHANGED shown
     /\ UNCHANGED <<session_vars, log, now, smtp_ok, called>>

\* generate_email_token and the try block: send, audit, session state.
Send(s, written) ==
  LET e == run[s].e
      token == generate_email_token(e, now)
  IN /\ run[s].pc = "send"
     /\ Len(log) < MaxLog
     /\ IF smtp_ok /\ written
        THEN /\ log' = audit("request_access", EmailDetails(e))
             /\ shown' = [shown EXCEPT ![s] = <<Sent>>]
             /\ email' = [email EXCEPT ![s] = e]
             /\ pending_token' = [pending_token EXCEPT ![s] = token]
             /\ UNCHANGED authenticated
        ELSE /\ shown' = [shown EXCEPT ![s] = <<MailError>>]
             /\ UNCHANGED <<log, session_vars>>
     /\ run' = [run EXCEPT ![s] = Idle]
     /\ UNCHANGED <<users, now, smtp_ok, called>>

NextRace ==
  \/ \E s \in Open, raw \in RawEmails : Lookup(s, raw)
  \/ \E s \in Open, secret \in Secrets : Insert(s, secret)
  \/ \E s \in Open, written \in BOOLEAN : Send(s, written)
  \/ SmtpChange

\* Two sessions whose request handlers interleave.
SpecRace == InitWith(Sessions) /\ [][NextRace]_vars

(* ------------------------- session protocol ---------------------------- *)
\* The three states of a session: no e-mail on file, an e-mail on file and
\* not yet authenticated, authenticated.
Unauthenticated(s) == ~authenticated[s] /\ email[s] = <<>>
PendingVerification(s) == ~authenticated[s] /\ email[s] # <<>>
Authenticated(s) == authenticated[s]

\* The step appends exactly one line to the audit log.
OneLineAppended ==
  /\ Len(log') = Len(log) + 1
  /\ SubSeq(log', 1, Len(log)) = log

\* The step appends exactly this line, written at the time of the step.
Appended(event, details) == log' = Append(log, AuditLine(event, details, now))

\* The last line of the audit log is of this event for this e-mail.
LastLineIs(event, e) ==
  /\ log # <<>>
  /\ log[Len(log)].record.event = event
  /\ log[Len(log)].record.details.email = e

\* The session's last script run displayed an error.
ErrorShown(s) ==
  \E i \in 1..Len(shown[s]) :
    shown[s][i] \in {MailError, NoRequest, TokenError, CodeError, NotFound}

(* ------------------------------ claims --------------------------------- *)
\* C1: every verify call made while the session has an e-mail on file appends
\* exactly one audit record, whatever the outcome (the audit file being
\* writable).
C1_VerifyAuditsOnce ==
  [][\A s \in Open : \A typed \in CodeInputs(s) :
       (email[s] # <<>> /\ Verify(s, typed, TRUE)) => OneLineAppended]_vars

\* C2: every requestAccess call appends exactly one audit record, whether
\* the delivery of the mail succeeds or fails (the audit file being writable).
C2_RequestAuditsOnce ==
  [][\A s \in Open, raw \in RawEmails :
       Request(s, raw, TRUE) => OneLineAppended]_vars

\* C3: a session is authenticated only if the audit log holds a login_success
\* or login_success_totp record for its e-mail.
C3_AuthenticatedOnlyIfAudited ==
  \A s \in Open :
    authenticated[s] =>
      \E i \in 1..Len(log) :
        /\ log[i].record.event \in {"login_success", "login_success_totp"}
        /\ log[i].record.details.email = email[s]

\* The typed e-mail has a character that is not a blank.
NonBlank(raw) == \E k \in 1..Len(raw) : raw[k] # " "

\* e is raw without the blanks around it and in lower case.
IsCanonicalOf(e, raw) ==
  \E i \in 1..(Len(raw) + 1), j \in 0..Len(raw) :
    /\ \A k \in 1..Len(raw) : (k < i \/ k > j) => raw[k] = " "
    /\ Len(e) = j - i + 1
    /\ \A k \in 1..Len(e) : e[k] = Lower(raw[i + k - 1])
    /\ e # <<>> => (e[1] # " " /\ e[Len(e)] # " ")

\* What C5 says of a requestAccess with the text raw whose mail is delivered.
RequestSucceeds(s, raw) ==
  /\ PendingVerification(s)'
  /\ IsCanonicalOf(email'[s], raw)
  /\ pending_token'[s] = generate_email_token(email'[s], now)
  /\ \E u \in users' : u.email = email'[s]
  /\ Appended("request_access", [email |-> email'[s]])

\* C4: when the delivery of the mail fails, requestAccess leaves the session's
\* e-mail, pending token and authenticated flag as they were, and the users
\* table holds the row of the canonical e-mail and every row it held before.
C4_DeliveryFailureKeepsSession ==
  [][\A s \in Open, raw \in RawEmails :
       (~smtp_ok /\ \E written \in BOOLEAN : Request(s, raw, written)) =>
         /\ UNCHANGED session_vars
         /\ Unauthenticated(s) => Unauthenticated(s)'
         /\ users \subseteq users'
         /\ \E u \in users' : IsCanonicalOf(u.email, raw)]_vars

C4_Witness ==
  \E s \in Open :
    /\ shown[s] = <<MailError>>
    /\ ~smtp_ok
    /\ Unauthenticated(s)
    /\ log = <<>>
    /\ \E u \in users : u.email = <<"a">>

\* C5 as stated: for every typed e-mail, a requestAccess whose mail is
\* delivered leaves the session in PendingVerification with the canonical
\* e-mail and the token just issued for it, with a users row for that e-mail
\* and one request_access record appended.
C5_Original ==
  [][\A s \in Open, raw \in RawEmails :
       (smtp_ok /\ Request(s, raw, TRUE)) => RequestSucceeds(s, raw)]_vars

\* C5 as amended: the same for every typed e-mail that is not empty or blank.
C5_RequestMovesToPending ==
  [][\A s \in Open, raw \in RawEmails :
       (smtp_ok /\ NonBlank(raw) /\ Request(s, raw, TRUE)) =>
         RequestSucceeds(s, raw)]_vars

C5_Witness ==
  \E s \in Open :
    /\ shown[s] = <<Sent>>
    /\ PendingVerification(s)
    /\ email[s] = <<"a">>
    /\ pending_token[s] = generate_email_token(<<"a">>, now)
    /\ LastLineIs("request_access", <<"a">>)

\* C6: in PendingVerification, a typed code equal to the pending token, at
\* most max_age seconds after the token was issued, authenticates the session
\* and appends a login_success record for the session's e-mail (the audit
\* file being writable).
C6_PendingTokenAuthenticates ==
  [][\A s \in Open : \A typed \in CodeInputs(s) :
       ( /\ PendingVerification(s)
         /\ strip_code(typed) = pending_token[s]
         /\ now - pending_token[s].n <= max_age
         /\ Verify(s, typed, TRUE) ) =>
         /\ Authenticated(s)'
         /\ Appended("login_success", [email |-> email[s]])]_vars

\* Authenticated by the token at the very end of its validity.
C6_Witness ==
  \E s \in Open :
    /\ Authenticated(s)
    /\ LastLineIs("login_success", email[s])
    /\ now - pending_token[s].n = max_age

\* C7: in PendingVerification for an e-mail, the TOTP code of that e-mail's
\* stored secret for the current time step authenticates the session and
\* appends a login_success_totp record (the audit file being writable).
C7_CurrentTotpAuthenticates ==
  [][\A s \in Open : \A typed \in CodeInputs(s) :
       ( /\ PendingVerification(s)
         /\ \E u \in users :
              /\ u.email = email[s]
              /\ strip_code(typed) = generate_otp(u.totp_secret, timecode(now))
         /\ Verify(s, typed, TRUE) ) =>
         /\ Authenticated(s)'
         /\ Appended("login_success_totp", [email |-> email[s]])]_vars

C7_Witness ==
  \E s \in Open :
    /\ Authenticated(s)
    /\ LastLineIs("login_success_totp", email[s])

\* The text is a TOTP code of the session's e-mail valid within the skew
\* window.
ValidTotp(text, s) ==
  \E u \in users, i \in (0 - valid_window)..valid_window :
    /\ u.email = email[s]
    /\ text = generate_otp(u.totp_secret, timecode(now) + i)

\* C8: in PendingVerification, a typed code that is neither the pending token
\* nor a TOTP code valid within the skew window leaves the session as it was,
\* appends a login_fail record and shows an error (the audit file being
\* writable).
C8_WrongCodeFails ==
  [][\A s \in Open : \A typed \in CodeInputs(s) :
       ( /\ PendingVerification(s)
         /\ strip_code(typed) # pending_token[s]
         /\ ~ValidTotp(strip_code(typed), s)
         /\ Verify(s, typed, TRUE) ) =>
         /\ UNCHANGED session_vars
         /\ PendingVerification(s)'
         /\ Appended("login_fail",
                     [submitted |-> strip_code(typed), email |-> email[s]])
         /\ ErrorShown(s)']_vars

\* C9: verify in a session with no e-mail on file shows the 'no pending
\* request' error, changes nothing of the session and appends no audit
\* record.
C9_VerifyWithoutRequest ==
  [][\A s \in Open : \A typed \in CodeInputs(s) :
       (Unauthenticated(s) /\ \E written \in BOOLEAN : Verify(s, typed, written)) =>
         /\ shown'[s] = <<NoRequest>>
         /\ UNCHANGED <<session_vars, log, users>>]_vars

\* The error shown to a session that holds a user row and a non-empty log.
C9_Witness ==
  \E s \in Open :
    /\ shown[s] = <<NoRequest>>
    /\ Unauthenticated(s)
    /\ \E u \in users : u.email = email[s]

\* C10: logout from Authenticated leaves the session Unauthenticated, with
\* e-mail and pending token cleared and authenticated false, and appends a
\* logout record with the e-mail that was logged in (the audit file being
\* writable).
C10_LogoutClearsSession ==
  [][\A s \in Open :
       (Authenticated(s) /\ Logout(s, TRUE)) =>
         /\ Unauthenticated(s)'
         /\ email'[s] = <<>>
         /\ pending_token'[s] = EmptyText
         /\ authenticated'[s] = FALSE
         /\ Appended("logout", [email |-> email[s]])]_vars

C10_Witness ==
  \E s \in Open :
    /\ Unauthenticated(s)
    /\ pending_token[s] = EmptyText
    /\ LastLineIs("logout", <<"a">>)

\* The lines of the audit log that record a delivered requestAccess.
RequestLines == { j \in 1..Len(log) : log[j].record.event = "request_access" }

\* The token mailed by the requestAccess that wrote line j.
TokenOfLine(j) ==
  generate_email_token(log[j].record.details.email, log[j].record.timestamp)

\* The tokens mailed by a requestAccess that a later requestAccess followed.
EarlierTokens ==
  { TokenOfLine(j) : j \in { i \in RequestLines : \E k \in RequestLines : i < k } }

\* A delivered requestAccess in PendingVerification leaves the token it
\* issued as the session's pending token.
NewTokenHeld ==
  \A s \in Open :
    (PendingVerification(s) /\ smtp_ok /\ log' # log) =>
      \A raw \in RawEmails :
        Request(s, raw, TRUE) =>
          pending_token'[s] = generate_email_token(email'[s], now)

\* C11 as stated: after a second delivered requestAccess the session holds
\* the newly issued token, and typing a token issued by an earlier
\* requestAccess never authenticates the session.
C11_Original ==
  [][/\ NewTokenHeld
     /\ \A s \in Open, written \in BOOLEAN : \A typed \in CodeInputs(s) :
          (strip_code(typed) \in EarlierTokens /\ Verify(s, typed, written)) =>
            ~authenticated'[s]]_vars

\* C11 as amended: the same for an earlier token that is not, character for
\* character, the token the session now holds (issued for another e-mail or
\* in another second).
C11_EarlierTokenRejected ==
  [][/\ NewTokenHeld
     /\ \A s \in Open : \A text \in EarlierTokens \ {pending_token[s]} :
          \A blanks \in BOOLEAN, written \in BOOLEAN :
            (~authenticated[s] /\ Verify(s, Typed(text, blanks), written)) =>
              ~authenticated'[s]]_vars

\* An earlier token for the same e-mail, still within max_age, was typed and
\* refused; the session still waits for the newer token.
C11_Witness ==
  \E s \in Open :
    /\ PendingVerification(s)
    /\ shown[s] = <<CodeError>>
    /\ log # <<>>
    /\ log[Len(log)].record.event = "login_fail"
    /\ LET old == log[Len(log)].record.details.submitted
       IN /\ old \in EarlierTokens
          /\ old.email = email[s]
          /\ old # pending_token[s]
          /\ now - old.n <= max_age

\* The rows of the users table for e-mail e after the step.
RowsAfter(e) == { u \in users' : u.email = e }

\* C12: however the request handlers of concurrent sessions interleave, the
\* users table never holds two rows for one e-mail, a handler that reaches
\* its end leaves exactly one row for its e-mail, and a row once stored stays
\* as it is (its secret is not replaced).
C12_OneRecordPerEmail ==
  [][/\ \A e \in Emails : Cardinality(RowsAfter(e)) <= 1
     /\ \A u \in users : u \in users'
     /\ \A s \in Open, written \in BOOLEAN :
          Send(s, written) => Cardinality(RowsAfter(run[s].e)) = 1]_vars

\* Two first-time requests for the same e-mail raced between the lookup and
\* the insert: one committed its row and went on, the other was refused.
C12_Witness ==
  \E s \in Open, t \in Open :
    /\ s # t
    /\ PendingVerification(s)
    /\ shown[t] = <<Exception>>
    /\ run[t] = Idle
    /\ Cardinality(query(email[s])) = 1

\* The events a verify records.
LoginEvents ==
  {"login_success", "login_success_totp", "login_fail_token", "login_fail"}

\* C13: every login record of the session's audit log comes after a
\* request_access record for the same e-mail, with no logout record between
\* the two.
C13_LoginAfterRequest ==
  \A i \in 1..Len(log) :
    log[i].record.event \in LoginEvents =>
      \E j \in 1..(i - 1) :
        /\ log[j].record.event = "request_access"
        /\ log[j].record.details.email = log[i].record.details.email
        /\ \A k \in (j + 1)..(i - 1) : log[k].record.event # "logout"

\* A request, a refused code and a login, all recorded.
C13_Witness ==
  /\ Len(log) = 3
  /\ log[1].record.event = "request_access"
  /\ log[2].record.event \in {"login_fail", "login_fail_token"}
  /\ log[3].record.event \in {"login_success", "login_success_totp"}

\* C14: a typed TOTP code authenticates the session exactly when it is the
\* code of the stored secret for the current, the previous or the next time
\* step; the code of the step three steps ahead is refused.
C14_SkewWindow ==
  [][\A s \in Open : \A typed \in CodeInputs(s) :
       ( /\ PendingVerification(s)
         /\ strip_code(typed).kind = "otp"
         /\ query(email[s]) # {}
         /\ Verify(s, typed, TRUE) ) =>
         /\ Authenticated(s)' <=>
              \E u \in query(email[s]), i \in {-1, 0, 1} :
                strip_code(typed) =
                  generate_otp(u.totp_secret, timecode(now) + i)
         /\ (\E u \in query(email[s]) :
               strip_code(typed) =
                 generate_otp(u.totp_secret, timecode(now) + 3))
              => ~Authenticated(s)']_vars

\* The code of the stored secret for the step three steps ahead was typed
\* and refused.
C14_Witness ==
  \E s \in Open, u \in users :
    /\ PendingVerification(s)
    /\ u.email = email[s]
    /\ shown[s] = <<CodeError>>
    /\ log # <<>>
    /\ log[Len(log)].record.event = "login_fail"
    /\ log[Len(log)].record.details.submitted =
         generate_otp(u.totp_secret, timecode(now) + 3)

\* What a verify displays when it refuses the credential.
CredentialErrors == {<<TokenError>>, <<CodeError>>, <<NotFound>>}

\* C15: a verify that refuses the credential displays the same error as the
\* session's previous refused verify, whichever path refused either of them
\* (signature path, TOTP path, no users row).
C15_SameError ==
  [][\A s \in Open : \A typed \in CodeInputs(s) :
       ( /\ PendingVerification(s)
         /\ shown[s] \in CredentialErrors
         /\ Verify(s, typed, TRUE)
         /\ ~Authenticated(s)' ) =>
         shown'[s] = shown[s]]_vars

\* C16: in PendingVerification, a typed code equal to the pending token more
\* than max_age seconds after the token was issued is not verified (the
\* verification returns None), leaves the session as it was and appends a
\* login_fail_token record (the audit file being writable).
C16_ExpiredTokenFails ==
  [][\A s \in Open : \A typed \in CodeInputs(s) :
       ( /\ PendingVerification(s)
         /\ strip_code(typed) = pending_token[s]
         /\ now - pending_token[s].n > max_age
         /\ Verify(s, typed, TRUE) ) =>
         /\ verify_email_token(strip_code(typed), now, max_age) = None
         /\ PendingVerification(s)'
         /\ UNCHANGED session_vars
         /\ Appended("login_fail_token",
                     SubmittedDetails(pending_token[s], email[s]))]_vars

\* The pending token was typed one second after its validity ended and was
\* refused.
C16_Witness ==
  \E s \in Open :
    /\ PendingVerification(s)
    /\ shown[s] = <<TokenError>>
    /\ LastLineIs("login_fail_token", email[s])
    /\ log[Len(log)].record.details.submitted = pending_token[s]
    /\ now - pending_token[s].n = max_age + 1

\* The session's last script run called this check.
Called(s, check) == \E i \in 1..Len(called[s]) : called[s][i] = check

\* C17: in PendingVerification for an e-mail with a users row, a verify that
\* does not authenticate the session has called the TOTP verification,
\* whether or not the typed text equals the pending token.
C17_TotpAlwaysAttempted ==
  [][\A s \in Open, written \in BOOLEAN : \A typed \in CodeInputs(s) :
       ( /\ PendingVerification(s)
         /\ query(email[s]) # {}
         /\ Verify(s, typed, written)
         /\ ~Authenticated(s)' ) =>
         Called(s, "totp.verify")']_vars

\* C18: the audit log is append-only: whatever the step, the log before it is
\* a prefix of the log after it.
C18_AppendOnly ==
  [][/\ Len(log') >= Len(log)
     /\ SubSeq(log', 1, Len(log)) = log]_vars

\* A request, a login and a logout were recorded one after the other.
C18_Witness ==
  /\ Len(log) = 3
  /\ log[1].record.event = "request_access"
  /\ log[2].record.event \in {"login_success", "login_success_totp"}
  /\ log[3].record.event = "logout"

\* C19: while a session is authenticated, its request and verify forms are
\* not processed; a step that changes the session's e-mail, pending token or
\* authenticated flag, or appends to the audit log, is the session's logout,
\* and no users row is created.
C19_AuthenticatedOnlyLogout ==
  [][\A s \in Open :
       Authenticated(s) =>
         /\ \A raw \in RawEmails, written \in BOOLEAN :
              ~Request(s, raw, written)
         /\ \A written \in BOOLEAN : \A typed \in CodeInputs(s) :
              ~Verify(s, typed, written)
         /\ ( \/ email'[s] # email[s]
              \/ pending_token'[s] # pending_token[s]
              \/ authenticated'[s] # authenticated[s]
              \/ log' # log ) =>
              \E written \in BOOLEAN : Logout(s, written)
         /\ users' \subseteq users]_vars

\* An authenticated session whose logout could not be recorded: it is still
\* authenticated, with its e-mail and pending token.
C19_Witness ==
  \E s \in Open :
    /\ Authenticated(s)
    /\ shown[s] = <<Connected, Exception>>
    /\ email[s] # <<>>
    /\ pending_token[s] # EmptyText

\* The token was issued by this program for e-mail e.
IssuedFor(token, e) ==
  /\ token.kind = "tok"
  /\ token.k = SECRET_KEY
  /\ token.purpose = "login"
  /\ token.email = e

\* An authenticated session has an e-mail on file, and a session with an
\* e-mail on file holds a pending token issued for that e-mail.
SessionConsistent(s) ==
  /\ authenticated[s] => email[s] # <<>>
  /\ email[s] # <<>> =>
       /\ pending_token[s] # EmptyText
       /\ IssuedFor(pending_token[s], email[s])

\* C20 as stated: in every state, an authenticated session has an e-mail on
\* file, and a session with an e-mail on file has a users row for it and
\* holds a pending token issued for that e-mail.
C20_Original ==
  \A s \in Open :
    /\ SessionConsistent(s)
    /\ email[s] # <<>> => query(email[s]) # {}

\* C20 as amended: after every step, an authenticated session has an e-mail
\* on file and a session with an e-mail on file holds a pending token issued
\* for that e-mail; a delivered request leaves a users row for the e-mail it
\* puts on file, and no step of the program takes a users row away (only a
\* deletion from outside does).
C20_SessionConsistent ==
  [][/\ \A s \in Open : SessionConsistent(s)'
     /\ \A s \in Open, raw \in RawEmails :
          (smtp_ok /\ Request(s, raw, TRUE)) => RowsAfter(email'[s]) # {}
     /\ \A u \in users : u \notin users' => AdminDelete(u)]_vars

\* An authenticated session whose users row was deleted from outside: the
\* e-mail and the token issued for it are still on file.
C20_Witness ==
  \E s \in Open :
    /\ Authenticated(s)
    /\ query(email[s]) = {}
    /\ IssuedFor(pending_token[s], email[s])

====
